---- MODULE Spec2Model ----
(***************************************************************************)
(* go-har: the archive store (Handler), its replay engine (Execute and     *)
(* SyncExecute) and the receipts they produce.                             *)
(*                                                                         *)
(* Entries are heap objects: the store's list (har.Log.Entries), the       *)
(* correlation index (Handler.entries), an exported archive, a selection   *)
(* map and a Receipt all hold ADDRESSES of entries, as the Go code holds   *)
(* *Entry pointers.  A Log is a heap object too (Har.Log is a *Log).       *)
(* List positions are 1-based here, 0-based in Go.                         *)
(***************************************************************************)
EXTENDS Integers, Sequences, FiniteSets, TLC

\* ---------------------------------------------------------------- bounds
\* Entry objects ever allocated (the archive given at construction plus
\* the entries AddRequest creates).
MaxEntries == 3
\* Entries of the archive given at construction.
MaxInit == 2
\* Largest configured concurrency limit tried (0 = no limit).
MaxConc == 1

\* ------------------------------------------------------------ value sets
Ids == {"a", "b"}
NoLog == 0
LogAddrs == {1, 2}

\* An http.Request handed to AddRequest: nil, one NewRequest cannot convert
\* (unparsable Content-Type, failing body) or a convertible one.
HttpRequests ==
  { [kind |-> "nil", url |-> "", method |-> "", ct |-> ""],
    [kind |-> "bad", url |-> "x", method |-> "POST", ct |-> "json"],
    [kind |-> "ok",  url |-> "y", method |-> "POST", ct |-> "json"] }

\* An http.Response handed to AddResponse: nil, one whose body cannot be
\* read, or a readable one.
HttpResponses ==
  { [kind |-> "nil", val |-> "nil", ct |-> ""],
    [kind |-> "bad", val |-> "r1", ct |-> "json"],
    [kind |-> "ok",  val |-> "r1", ct |-> "json"] }

\* Entries an archive given at construction may hold.
\* A stored Request: URL, Method, Headers (a list of name/value pairs),
\* Cookies (names) and PostData ("none": no PostData, "omitted": PostData
\* without its Text, "text": PostData with the body text).
Req(url, method, headers, cookies, body) ==
  [url |-> url, method |-> method, headers |-> headers, cookies |-> cookies,
   body |-> body]

NoReq == Req("", "", <<>>, {}, "none")

\* A timestamp string: the instant it denotes (microseconds) and whether the
\* string is wrapped in double quotes, as a JSON token is.
Stamp(t) == [quoted |-> FALSE, at |-> t]

InitEntries ==
  { [pageRef |-> "",  req |-> Req("x", "GET", <<>>, {}, "none"),
     response |-> "archived", time |-> 0, started |-> Stamp(0)],
    [pageRef |-> "a", req |-> Req("x", "POST", <<>>, {}, "none"),
     response |-> "archived", time |-> 0, started |-> Stamp(0)],
    [pageRef |-> "a", req |-> Req("y", "POST", <<>>, {}, "none"),
     response |-> "archived", time |-> 0, started |-> Stamp(0)] }

\* An address that holds no Entry object.
FreeEntry ==
  [pageRef |-> "", req |-> NoReq, response |-> "free", time |-> 0,
   started |-> Stamp(0)]

EntryAddrs == 1..MaxEntries

SeqsUpTo(S, n) == UNION { [1..k -> S] : k \in 0..n }

InitArchives == SeqsUpTo(InitEntries, MaxInit)

\* Entries with the request details a replay depends on: headers to copy
\* or to leave out, stored cookies, a URL url.Parse rejects, a null header.
RunEntries ==
  { [pageRef |-> "",
     req |-> Req("x", "GET",
                 << [name |-> "X-A", value |-> "v"],
                    [name |-> "Cookie", value |-> "c=1"] >>, {"c"}, "none"),
     response |-> "archived", time |-> 0, started |-> Stamp(0)],
    [pageRef |-> "",
     req |-> Req("y", "GET",
                 << [name |-> "cookie", value |-> "c=1"],
                    [name |-> "bad name", value |-> "v"],
                    [name |-> "X-B", value |-> "bad value"] >>, {}, "none"),
     response |-> "archived", time |-> 0, started |-> Stamp(0)],
    [pageRef |-> "", req |-> Req("%", "GET", <<>>, {"c"}, "none"),
     response |-> "archived", time |-> 0, started |-> Stamp(0)],
    [pageRef |-> "",
     req |-> Req("x", "GET", << [name |-> "nil", value |-> "nil"] >>, {}, "none"),
     response |-> "archived", time |-> 0, started |-> Stamp(0)] }

RunArchives == SeqsUpTo(RunEntries, MaxInit)

\* Entries that differ in the letter case of the method and in the scheme,
\* host and path of the URL.
SelectEntries ==
  { [pageRef |-> "", req |-> Req("http://h/p", "GET", <<>>, {}, "none"),
     response |-> "archived", time |-> 0, started |-> Stamp(0)],
    [pageRef |-> "", req |-> Req("https://h/q", "get", <<>>, {}, "none"),
     response |-> "archived", time |-> 0, started |-> Stamp(0)],
    [pageRef |-> "", req |-> Req("http://g/p", "POST", <<>>, {}, "none"),
     response |-> "archived", time |-> 0, started |-> Stamp(0)] }

SelectArchives == SeqsUpTo(SelectEntries, MaxInit)

\* The body-capture options a caller gives at construction.
BodyOptions ==
  { [kind |-> "Bool",  on |-> FALSE, cts |-> {}],
    [kind |-> "Bool",  on |-> TRUE,  cts |-> {}],
    [kind |-> "Allow", on |-> FALSE, cts |-> {"html"}],
    [kind |-> "Skip",  on |-> FALSE, cts |-> {"json"}] }

\* Options of one kind a caller gives at construction.
MaxOpts == 2

OptionLists == SeqsUpTo(BodyOptions, MaxOpts)

VARIABLES
  heap,        \* Entry objects by address; FreeEntry where none is allocated
  logs,        \* Log objects: LogAddrs -> [comment, entries (Seq of addresses)]
  harLog,      \* h.har.Log: the address of the live store's Log
  index,       \* h.entries: pageRef -> entry address
  concurrency, \* h.concurrency
  exported,    \* the Log address inside the Har a caller got from Export, or NoLog
  cookie,      \* h.cookie
  reqBody,     \* h.reqBody: the request body-capture handlers, in order
  respBody,    \* h.respBody: the response body-capture handlers, in order
  last,        \* the last API call and what it returned
  ePc, eSel, eTodo, eReceipts, eSelList, eFilters,   \* one Execute call
  sPc, sSel, sPending, sSelList, sFilters,           \* one SyncExecute call
  ctx,         \* the caller's context: "live" or "done"
  semaCur, semaSize,                                 \* semaphore.Weighted
  worker,      \* selected position -> the worker goroutine's place
  held,        \* selected position -> whether Acquire succeeded for it
  outcome,     \* selected position -> the Receipt the worker built
  chanBuf, chanClosed,                               \* the receipt channel
  delivered,   \* Receipts the consumer has received
  crashed,     \* an unrecovered panic ended the process
  now,         \* the wall clock, in microseconds
  cPc, cKind, cSrc, cVal, cJson, cBack,   \* one run of a JSON codec
  pPc, pDepth, pInput,                    \* one call of NewReader
  mu,          \* h.mu: "free", or the goroutine that holds it
  lPc, lMode, lFilters, lPos, lHit        \* the selection of one replay call

storeVars == <<heap, logs, harLog, index, concurrency, exported>>
optVars   == <<cookie, reqBody, respBody>>
histVars  == <<last>>
execVars  == <<ePc, eSel, eTodo, eReceipts, eSelList, eFilters>>
syncVars  == <<sPc, sSel, sPending, sSelList, sFilters, ctx, semaCur, semaSize,
               worker, held, outcome, chanBuf, chanClosed, delivered, crashed>>
codecVars == <<cPc, cKind, cSrc, cVal, cJson, cBack>>
parseVars == <<pPc, pDepth, pInput>>
lockVars  == <<mu, lPc, lMode, lFilters, lPos, lHit>>
restVars  == <<now, codecVars, parseVars>>
dataVars  == <<restVars, lockVars>>
vars == <<storeVars, optVars, histVars, execVars, syncVars, dataVars>>

\* ------------------------------------------------------------- the store
\* h.har.Log.Entries
List == logs[harLog].entries

\* EntryTotal()
EntryTotal == Len(List)

EmptyLog == [comment |-> "", entries |-> <<>>]

\* The index NewReader builds: every non-empty pageRef, the last entry
\* carrying it winning.
ReaderIndex(arch) ==
  LET refs == { arch[i].pageRef : i \in DOMAIN arch } \ {""}
      lastOf(r) == CHOOSE i \in DOMAIN arch :
                     /\ arch[i].pageRef = r
                     /\ \A j \in DOMAIN arch : arch[j].pageRef = r => j <= i
  IN [r \in refs |-> lastOf(r)]

\* NewHandler(har) leaves the index empty.
HandlerIndex(arch) == [r \in {} |-> 0]

Call(op, id, err) == [op |-> op, id |-> id, err |-> err]

ExecIdle ==
  /\ ePc = "idle" /\ eSel = <<>> /\ eTodo = {} /\ eReceipts = <<>>
  /\ eSelList = <<>> /\ eFilters = <<>>

SyncIdle ==
  /\ sPc = "idle" /\ sSel = <<>> /\ sPending = {} /\ sSelList = <<>>
  /\ sFilters = <<>> /\ ctx = "live" /\ semaCur = 0 /\ semaSize = 0
  /\ worker = <<>> /\ held = <<>> /\ outcome = <<>>
  /\ chanBuf = <<>> /\ chanClosed = FALSE /\ delivered = <<>>
  /\ crashed = FALSE

\* No codec runs and no NewReader call is in progress.
CodecIdle ==
  /\ cPc = "idle" /\ cKind = "" /\ cSrc = <<>> /\ cVal = <<>>
  /\ cJson = <<>> /\ cBack = <<>>

ParseIdle == pPc = "idle" /\ pDepth = 0 /\ pInput = <<>>

\* The lock is free and no selection is in progress.
LockIdle ==
  /\ mu = "free" /\ lPc = "idle" /\ lMode = "" /\ lFilters = <<>>
  /\ lPos = 0 /\ lHit = {}

DataIdle == now = 0 /\ CodecIdle /\ ParseIdle /\ LockIdle

\* h.mu.Lock() returns: sync.Mutex is not reentrant, so it returns only
\* while nobody holds the lock, the caller included.  An operation that
\* takes the lock and releases it in the same step leaves mu as it was.
MuLock == mu = "free"

\* A replay call starts: what the other kind of call left behind is dropped.
ExecReset ==
  /\ ePc' = "idle" /\ eSel' = <<>> /\ eTodo' = {} /\ eReceipts' = <<>>
  /\ eSelList' = <<>> /\ eFilters' = <<>>

SyncReset ==
  /\ sPc' = "idle" /\ sSel' = <<>> /\ sPending' = {} /\ sSelList' = <<>>
  /\ sFilters' = <<>> /\ semaCur' = 0 /\ semaSize' = 0
  /\ worker' = <<>> /\ held' = <<>> /\ outcome' = <<>>
  /\ chanBuf' = <<>> /\ chanClosed' = FALSE /\ delivered' = <<>>
  /\ crashed' = FALSE

\* The store as NewReader (reader) or NewHandler (not reader) builds it
\* from an archive.
InitStoreOf(archives, readers) ==
  \E arch \in archives, reader \in readers :
    /\ heap = [a \in EntryAddrs |-> IF a \in DOMAIN arch THEN arch[a] ELSE FreeEntry]
    /\ harLog = 1
    /\ logs = [a \in LogAddrs |->
                 IF a = 1 THEN [comment |-> "", entries |-> [i \in DOMAIN arch |-> i]]
                 ELSE EmptyLog]
    /\ index = IF reader THEN ReaderIndex(arch) ELSE HandlerIndex(arch)
    /\ exported = NoLog
    /\ last = Call("New", "", "none")

\* An Option that sets a body-capture policy: WithRequestBody(on) and
\* WithResponseBody(on), the ...ByContentTypes(cts) allow list, and the
\* WithSkip...ForContentTypes(cts) deny list.
WithBody(on) == [kind |-> "Bool", on |-> on, cts |-> {}]
WithBodyByContentTypes(cts) == [kind |-> "Allow", on |-> FALSE, cts |-> cts]
WithSkipBodyForContentTypes(cts) == [kind |-> "Skip", on |-> FALSE, cts |-> cts]

\* What applying a body-capture Option does to the handler's list.
SetBodyOption(handlers, o) == Append(handlers, o)

RECURSIVE SetOption(_, _)
\* setOption(opts...): the options are applied in order.
SetOption(handlers, opts) ==
  IF opts = <<>> THEN handlers
  ELSE SetOption(SetBodyOption(handlers, Head(opts)), Tail(opts))

\* NewHandler: the built-in defaults are set first, then the caller's
\* options; `c` is the caller's WithCookie, TRUE being the default.
InitOptions(reqOpts, respOpts, c) ==
  /\ reqBody = SetOption(SetOption(<<>>, <<WithBody(TRUE)>>), reqOpts)
  /\ respBody = SetOption(SetOption(<<>>, <<WithBody(TRUE)>>), respOpts)
  /\ cookie = c

\* The handler function a body-capture Option registers, applied to a
\* message.
BodyHandler(o, msg) ==
  IF o.kind = "Bool" THEN o.on
  ELSE IF o.kind = "Allow" THEN msg.ct \in o.cts
  ELSE msg.ct \notin o.cts

\* h.isReqBody(r) and h.isRespBody(r)
IsReqBody(r) == \E k \in DOMAIN reqBody : BodyHandler(reqBody[k], r)
IsRespBody(r) == \E k \in DOMAIN respBody : BodyHandler(respBody[k], r)

InitStore(readers) == InitStoreOf(InitArchives, readers)

Init ==
  /\ InitStore(BOOLEAN)
  /\ InitOptions(<<>>, <<>>, TRUE)
  /\ concurrency = 1
  /\ ExecIdle
  /\ SyncIdle
  /\ DataIdle

\* The step is API call `op`: the history moves on.
RecordFailure(op, id, err) == last' = Call(op, id, "failed")
Record(op, id, err) == last' = Call(op, id, err)

\* NewRequest: the converted Request, or an error.
NewRequest(r, withBody) ==
  IF r.kind = "nil" THEN [err |-> "empty", req |-> NoReq]
  ELSE IF r.kind = "bad" THEN [err |-> "convert", req |-> NoReq]
  ELSE [err |-> "none",
        req |-> Req(r.url, r.method, <<>>, {},
                    IF withBody THEN "text" ELSE "omitted")]

\* NewResponse: the converted Response, or an error.
\* Without the body the Response keeps its metadata only.
NoText == "notext"

NewResponse(resp, withBody) ==
  IF resp.kind = "nil" THEN [err |-> "empty", val |-> "nil"]
  ELSE IF resp.kind = "bad" /\ withBody THEN [err |-> "convert", val |-> "nil"]
  ELSE [err |-> "none", val |-> IF withBody THEN resp.val ELSE NoText]

\* time.Now().UTC().Format(time.RFC3339Nano)
Format(t) == Stamp(t)

\* time.Time{}: the zero time, centuries before any instant of a run.
ZeroTime == -1000

\* The largest time.Duration: the result of a subtraction that overflows.
MaxDuration == 100

\* ParseISO8601: each of its three layouts begins and ends with a literal
\* double quote, so only a quoted string parses; the zero time is returned
\* with the error.
ParseISO8601(str) ==
  IF str.quoted THEN [err |-> "none", t |-> str.at]
  ELSE [err |-> "parse", t |-> ZeroTime]

\* time.Since(t).Microseconds()
Since(t) == IF now - t > MaxDuration THEN MaxDuration ELSE now - t

\* What AddResponse stores in Entry.Time: the error of ParseISO8601 is
\* dropped.
Elapsed(e) == Since(ParseISO8601(e.started).t)

\* Whether AddRequest finds the id in use.
IsDuplicateMissed(id) == FALSE
IsDuplicate(id) == id \in DOMAIN index

AddRequest(id, r) ==
  LET nr == NewRequest(r, IsReqBody(r))
      free == { a \in EntryAddrs : heap[a] = FreeEntry }
      addr == CHOOSE a \in free : \A b \in free : a <= b
      entry == [pageRef |-> id, req |-> nr.req, response |-> "placeholder",
                time |-> -1, started |-> Format(now)]
  IN
  /\ IF nr.err # "none"
       THEN /\ Record("AddRequest", id, nr.err)
            /\ UNCHANGED <<heap, logs, index>>
     ELSE IF IsDuplicate(id)
       THEN /\ MuLock
            /\ Record("AddRequest", id, "duplicate")
            /\ UNCHANGED <<heap, logs, index>>
     ELSE /\ MuLock
          /\ free # {}
          /\ heap' = [heap EXCEPT ![addr] = entry]
          /\ index' = (id :> addr) @@ index
          /\ logs' = [logs EXCEPT ![harLog].entries = Append(@, addr)]
          /\ Record("AddRequest", id, "none")
  /\ UNCHANGED <<optVars, dataVars, harLog, concurrency, exported, execVars, syncVars>>

\* The list entries carrying the id as a non-empty pageRef.
ListedAs(id) ==
  { a \in EntryAddrs : /\ \E i \in DOMAIN List : List[i] = a
                       /\ heap[a].pageRef # ""
                       /\ heap[a].pageRef = id }

\* The entries AddResponse rewrites: none when the index does not know the
\* id, else the indexed one and every list entry carrying the id.
ResponseTargetsAll(id) == { List[i] : i \in DOMAIN List }
ResponseTargetsByList(id) ==
  (IF id \in DOMAIN index THEN {index[id]} ELSE {}) \cup ListedAs(id)
ResponseTargets(id) ==
  IF id \in DOMAIN index THEN {index[id]} \cup ListedAs(id) ELSE {}

AddResponse(id, resp) ==
  LET nr == NewResponse(resp, IsRespBody(resp)) IN
  /\ IF nr.err # "none"
       THEN /\ Record("AddResponse", id, nr.err)
            /\ UNCHANGED heap
     ELSE /\ MuLock
          /\ heap' = [a \in EntryAddrs |->
                        IF a \in ResponseTargets(id)
                          THEN [heap[a] EXCEPT
                                  !.response = nr.val,
                                  !.time = IF id \in DOMAIN index /\ a = index[id]
                                             THEN Elapsed(heap[a]) ELSE @]
                          ELSE heap[a]]
          /\ Record("AddResponse", id, "none")
  /\ UNCHANGED <<optVars, dataVars, logs, harLog, index, concurrency, exported, execVars, syncVars>>

\* The Log object Reset allocates: any address no caller still holds.
FreshLog == CHOOSE a \in LogAddrs : a # exported

\* The index after Reset.
ResetIndexKept == index
ResetIndex == [r \in {} |-> 0]

\* The entries something other than the store still points to after
\* Reset: those of an exported archive, of a selection, of a Receipt.  The
\* others are garbage, and their addresses are free again.
Pinned ==
  (IF exported = NoLog THEN {}
   ELSE { logs[exported].entries[i] : i \in DOMAIN logs[exported].entries })
  \cup { eSel[i] : i \in DOMAIN eSel } \cup { sSel[i] : i \in DOMAIN sSel }

Reset ==
  /\ MuLock
  /\ index' = ResetIndex
  /\ heap' = [a \in EntryAddrs |-> IF a \in Pinned THEN heap[a] ELSE FreeEntry]
  /\ harLog' = FreshLog
  /\ logs' = [a \in LogAddrs |-> IF a = exported /\ a # FreshLog THEN logs[a]
                                  ELSE EmptyLog]
  /\ Record("Reset", "", "none")
  /\ UNCHANGED <<optVars, dataVars, concurrency, exported, execVars, syncVars>>

\* Export: har := *h.har; return &har.  The copy of the Har struct holds
\* the same *Log.
ExportedLog == harLog

Export ==
  /\ MuLock
  /\ exported' = ExportedLog
  /\ Record("Export", "", "none")
  /\ UNCHANGED <<optVars, dataVars, heap, logs, harLog, index, concurrency, execVars, syncVars>>

\* What the live store shows through Export, EntryTotal, Write and replay:
\* its Log's fields and every entry of its list.
StoreView ==
  [comment |-> logs[harLog].comment,
   entries |-> [i \in DOMAIN List |-> heap[List[i]]]]

\* The caller mutates the archive Export returned: a field of its Log, its
\* entry list, or an entry reached through the list.
MutateExport(what, i) ==
  /\ exported # NoLog
  /\ \/ /\ what = "comment" /\ i = 0
        /\ logs' = [logs EXCEPT ![exported].comment = "mutated"]
        /\ UNCHANGED heap
     \/ /\ what = "entries" /\ i = 0
        /\ logs' = [logs EXCEPT ![exported].entries = <<>>]
        /\ UNCHANGED heap
     \/ /\ what = "entry" /\ i \in DOMAIN logs[exported].entries
        /\ heap' = [heap EXCEPT ![logs[exported].entries[i]].response = "mutated"]
        /\ UNCHANGED logs
  /\ Record("MutateExport", what, "none")
  /\ UNCHANGED <<optVars, dataVars, harLog, index, concurrency, exported, execVars, syncVars>>

\* ---------------------------------------------------------------- filters
\* RequestOption values: WithRequestUrlIs(urls...) and WithRequestMethod(ms...).
Filters ==
  { [kind |-> "UrlIs",  arg |-> {"x"}],
    [kind |-> "Method", arg |-> {"GET"}] }

FilterLists == SeqsUpTo(Filters, 2)

\* strings.ToUpper on the method names in use.
ToUpper(m) ==
  IF m \in {"get", "Get"} THEN "GET"
  ELSE IF m = "post" THEN "POST"
  ELSE m

\* f(h, entry), for WithRequestUrlIs, WithRequestHostIs (which looks the
\* whole e.Request.URL up in the host set), WithRequestMethod (the listed
\* method is upper-cased, the stored one is not) and WithSkipRequestMethod
\* (false as soon as the stored method differs from a listed one).
Matches(f, e) ==
  IF f.kind = "UrlIs" THEN e.req.url \in f.arg
  ELSE IF f.kind = "HostIs" THEN e.req.url \in f.arg
  ELSE IF f.kind = "Method" THEN \E r \in f.arg : e.req.method = ToUpper(r)
  ELSE \A r \in f.arg : e.req.method = ToUpper(r)

\* The filters whose semantics the selection is probed with.
ProbeFilters ==
  { [kind |-> "Method",     arg |-> {"get"}],
    [kind |-> "Method",     arg |-> {"POST"}],
    [kind |-> "SkipMethod", arg |-> {"GET"}],
    [kind |-> "SkipMethod", arg |-> {"GET", "POST"}],
    [kind |-> "HostIs",     arg |-> {"h"}],
    [kind |-> "HostIs",     arg |-> {"http://h/p"}] }

\* The inner loop of the selection: entries[i] = entry is reached for a
\* filter that returns true.
SelectedAll(filters, e) == \A k \in DOMAIN filters : Matches(filters[k], e)
Selected(filters, e) == \E k \in DOMAIN filters : Matches(filters[k], e)

\* The key (list position) the selection files an entry under.
SelKeyShifted(i) == IF i > 1 THEN i - 1 ELSE i
SelKey(i) == i

\* The selection map of Execute and SyncExecute: list position -> *Entry.
\* `hit` holds the list positions entries[i] = entry was reached for.
SelectionOf(hit) ==
  LET keys == { SelKey(i) : i \in hit }
  IN [k \in keys |-> List[CHOOSE i \in hit : SelKey(i) = k]]

Select(filters) ==
  SelectionOf({ i \in DOMAIN List : Selected(filters, heap[List[i]]) })

\* ------------------------------------------------------------------- run
\* What the transport does with one request.
TransportOutcomes == {"ok", "error", "panic"}

\* A nil *NVP in a stored header list (a JSON null).
NilNVP == [name |-> "nil", value |-> "nil"]

\* url.Parse fails on the stored URL.
Unparsable(url) == url = "%"

\* httpguts.ValidHeaderFieldName and ValidHeaderFieldValue
ValidHeaderFieldName(n) == n # "bad name"
ValidHeaderFieldValue(v) == v # "bad value"

\* textproto.CanonicalMIMEHeaderKey, as http.Header.Add applies it.
CanonicalKey(n) == IF n = "cookie" THEN "Cookie" ELSE n

\* The condition under which EntryToRequest copies a stored header.
HeaderCopied(h) ==
  /\ ValidHeaderFieldName(h.name)
  /\ ValidHeaderFieldValue(h.value)
  /\ h.name # "Cookie"

\* request.Header.Add(h.Name, h.Name)
AddedHeader(h) == [name |-> CanonicalKey(h.name), value |-> h.name]

\* No request was built.
NoRequest == [headers |-> <<>>, cookies |-> {}]

\* EntryToRequest(e, withCookie): the http.Request (its headers in the order
\* added, and the cookies attached with AddCookie), or an error; a nil header
\* element makes it panic.
EntryToRequest(e, withCookie) ==
  IF Unparsable(e.req.url) THEN [err |-> "build", request |-> NoRequest]
  ELSE IF \E k \in DOMAIN e.req.headers : e.req.headers[k] = NilNVP
    THEN [err |-> "panic", request |-> NoRequest]
  ELSE LET kept == SelectSeq(e.req.headers, HeaderCopied) IN
       [err |-> "none",
        request |-> [headers |-> [k \in DOMAIN kept |-> AddedHeader(kept[k])],
                     cookies |-> IF withCookie THEN e.req.cookies ELSE {}]]

\* The context of the request handed to the transport: the result of
\* request.WithContext(ctx) is discarded, the request keeps the background
\* context.
RequestCtx(c) == "live"

\* cli.Do(request): a request whose context is done fails with the
\* context's error; otherwise the transport decides.
Transport(rc, t) == IF rc = "done" THEN "cancelled" ELSE t

\* The error run's deferred recover returns for a panic.
RecoveredAsNone(x) == "none"
RecoveredAs(x) == "panic"

\* Handler.run, then the body read: the Response and error of the Receipt,
\* and the request that reached the transport.  run recovers a panic of
\* EntryToRequest or of the transport and returns it as an error.
Run(entry, t, withCookie, c) ==
  LET b == EntryToRequest(entry, withCookie)
      o == Transport(RequestCtx(c), t)
  IN IF b.err = "panic"
       THEN [resp |-> "nil", err |-> RecoveredAs("build"), request |-> NoRequest]
     ELSE IF b.err # "none"
       THEN [resp |-> "nil", err |-> b.err, request |-> NoRequest]
     ELSE IF o = "ok"
       THEN [resp |-> "resp", err |-> "none", request |-> b.request]
     ELSE IF o = "error"
       THEN [resp |-> "nil", err |-> "transport", request |-> b.request]
     ELSE IF o = "cancelled"
       THEN [resp |-> "nil", err |-> "cancelled", request |-> b.request]
     ELSE [resp |-> "nil", err |-> RecoveredAs("transport"), request |-> b.request]

MkReceipt(i, e, r) ==
  [index |-> i, entry |-> e, resp |-> r.resp, err |-> r.err,
   request |-> r.request]

\* The Receipt of a worker that has not built one yet.
NoReceipt ==
  [index |-> 0, entry |-> 0, resp |-> "nil", err |-> "unset",
   request |-> NoRequest]

\* The withCookie argument Execute and the SyncExecute worker hand to run.
ExecuteWithCookie == cookie
SyncWithCookie == TRUE

\* The entries after one entry was replayed: neither loop assigns to the
\* entry or to the list.
AfterRunFilled(h, a, r) == [h EXCEPT ![a].response = r.resp]
AfterRun(h, a, r) == h

\* --------------------------------------------------------------- Execute
\* The positions a range over the selection map may yield next: Go leaves
\* the iteration order of a map unspecified.
RangeNext(todo) == todo

\* No replay call is in flight: every goroutine of the last one has ended.
ReplayQuiet ==
  /\ ~crashed
  /\ ePc \in {"idle", "done"}
  /\ sPc \in {"idle", "closed"}
  /\ \A i \in DOMAIN worker : worker[i] = "done"

\* Execute from the end of the selection on: `sel` is the selection map.
ExecuteBegin(sel, filters, c) ==
  /\ ReplayQuiet
  /\ ctx' = c
  /\ eFilters' = filters
  /\ eSel' = sel
  /\ eSelList' = List
  /\ eTodo' = DOMAIN sel
  /\ eReceipts' = <<>>
  /\ IF DOMAIN sel = {}
       THEN ePc' = "done" /\ Record("Execute", "", "none")
       ELSE ePc' = "run" /\ UNCHANGED histVars
  /\ SyncReset
  /\ UNCHANGED <<optVars, restVars, storeVars>>

\* Execute up to its loop, the selection (under the lock) taken in one step.
ExecuteStart(filters, c) ==
  /\ MuLock
  /\ ExecuteBegin(Select(filters), filters, c)
  /\ UNCHANGED lockVars

\* The receipts after one more entry was replayed.
CollectAborting(rs, r) ==
  IF \E k \in DOMAIN rs : rs[k].err = "build" THEN rs ELSE Append(rs, r)
Collect(rs, r) == Append(rs, r)

ExecuteStep(i, t) ==
  /\ ePc = "run"
  /\ i \in RangeNext(eTodo)
  /\ LET r == Run(heap[eSel[i]], t, ExecuteWithCookie, ctx) IN
       /\ eReceipts' = Collect(eReceipts, MkReceipt(i, eSel[i], r))
       /\ heap' = AfterRun(heap, eSel[i], r)
  /\ eTodo' = eTodo \ {i}
  /\ UNCHANGED <<optVars, dataVars, ePc, eSel, eSelList, eFilters, logs, harLog, index,
                 concurrency, exported, histVars, syncVars>>

ExecuteReturn ==
  /\ ePc = "run"
  /\ eTodo = {}
  /\ ePc' = "done"
  /\ Record("Execute", "", "none")
  /\ UNCHANGED <<optVars, dataVars, eSel, eTodo, eReceipts, eSelList, eFilters, storeVars, syncVars>>

\* ----------------------------------------------------------- SyncExecute
\* The weight of the semaphore: the configured limit, or the number of
\* selected entries when the limit is 0.
SemaSize(sel) ==
  IF concurrency <= 0 THEN Cardinality(DOMAIN sel) ELSE concurrency

\* semaphore.Weighted.Acquire(ctx, n): "ok" (n slots taken), "err" (ctx is
\* done, nothing taken), or no outcome yet (the call blocks).  With ctx done
\* and the slots free, the outcome depends on the version of the package:
\* both are possible.
AcquireOutcomes(n) ==
  IF ctx = "done"
    THEN IF semaSize - semaCur >= n THEN {"ok", "err"} ELSE {"err"}
    ELSE IF semaSize - semaCur >= n THEN {"ok"} ELSE {}

\* SyncExecute from the end of the selection on: `sel` is the selection map.
SyncBegin(sel, filters, c) ==
  /\ ReplayQuiet
  /\ sFilters' = filters
  /\ sSel' = sel
  /\ sSelList' = List
  /\ ctx' = c
  /\ chanBuf' = <<>>
  /\ delivered' = <<>>
  /\ semaCur' = 0
  /\ crashed' = FALSE
  /\ Record("SyncExecute", "", "none")
  /\ IF DOMAIN sel = {}
       THEN /\ sPc' = "closed"
            /\ chanClosed' = TRUE
            /\ semaSize' = 0
            /\ sPending' = {}
            /\ worker' = <<>> /\ held' = <<>> /\ outcome' = <<>>
       ELSE /\ sPc' = "loop"
            /\ chanClosed' = FALSE
            /\ semaSize' = SemaSize(sel)
            /\ sPending' = DOMAIN sel
            /\ worker' = [i \in DOMAIN sel |-> "none"]
            /\ held' = [i \in DOMAIN sel |-> FALSE]
            /\ outcome' = [i \in DOMAIN sel |-> NoReceipt]
  /\ ExecReset
  /\ UNCHANGED <<optVars, restVars, storeVars>>

\* SyncExecute up to the start of its producer goroutine, the selection
\* (under the lock) taken in one step.
SyncStart(filters, c) ==
  /\ MuLock
  /\ SyncBegin(Select(filters), filters, c)
  /\ UNCHANGED lockVars

\* One iteration of the producer's loop: Acquire(ctx, 1), its error only
\* logged, then the worker goroutine is started.
ProducerLaunch(i) ==
  /\ ~crashed
  /\ sPc = "loop"
  /\ i \in RangeNext(sPending)
  /\ \E o \in AcquireOutcomes(1) :
       /\ semaCur' = IF o = "ok" THEN semaCur + 1 ELSE semaCur
       /\ held' = [held EXCEPT ![i] = (o = "ok")]
  /\ worker' = [worker EXCEPT ![i] = "started"]
  /\ sPending' = sPending \ {i}
  /\ UNCHANGED <<optVars, dataVars, sPc, sSel, sSelList, sFilters, ctx, semaSize, outcome, chanBuf,
                 chanClosed, delivered, crashed, storeVars, histVars, execVars>>

\* After the loop: Acquire(ctx, concurrency), its error only logged, then
\* close(receipt).
ProducerClose ==
  /\ ~crashed
  /\ sPc = "loop"
  /\ sPending = {}
  /\ \E o \in AcquireOutcomes(semaSize) :
       semaCur' = IF o = "ok" THEN semaCur + semaSize ELSE semaCur
  /\ chanClosed' = TRUE
  /\ sPc' = "closed"
  /\ UNCHANGED <<optVars, dataVars, sSel, sPending, sSelList, sFilters, ctx, semaSize, worker, held,
                 outcome, chanBuf, delivered, crashed, storeVars, histVars,
                 execVars>>

\* The worker calls h.run: the request enters the transport.
WorkerBegin(i) ==
  /\ ~crashed
  /\ i \in DOMAIN worker
  /\ worker[i] = "started"
  /\ worker' = [worker EXCEPT ![i] = "transport"]
  /\ UNCHANGED <<optVars, dataVars, sPc, sSel, sPending, sSelList, sFilters, ctx, semaCur, semaSize,
                 held, outcome, chanBuf, chanClosed, delivered, crashed,
                 storeVars, histVars, execVars>>

\* The transport returns (or panics and run recovers); the body is read.
WorkerReturn(i, t) ==
  /\ ~crashed
  /\ i \in DOMAIN worker
  /\ worker[i] = "transport"
  /\ worker' = [worker EXCEPT ![i] = "send"]
  /\ LET r == Run(heap[sSel[i]], t, SyncWithCookie, ctx) IN
       /\ outcome' = [outcome EXCEPT ![i] = MkReceipt(i, sSel[i], r)]
       /\ heap' = AfterRun(heap, sSel[i], r)
  /\ UNCHANGED <<optVars, dataVars, sPc, sSel, sPending, sSelList, sFilters, ctx, semaCur,
                 semaSize, held, chanBuf, chanClosed, delivered, crashed, logs,
                 harLog, index, concurrency, exported, histVars, execVars>>

\* receipt <- Receipt{...}: a send on a closed channel panics, and nothing
\* recovers a panic in the worker goroutine.
WorkerSend(i) ==
  /\ ~crashed
  /\ i \in DOMAIN worker
  /\ worker[i] = "send"
  /\ IF chanClosed
       THEN /\ crashed' = TRUE
            /\ worker' = [worker EXCEPT ![i] = "panicked"]
            /\ UNCHANGED chanBuf
       ELSE /\ Len(chanBuf) + Len(delivered) < Cardinality(DOMAIN sSel)
            /\ chanBuf' = Append(chanBuf, outcome[i])
            /\ worker' = [worker EXCEPT ![i] = "release"]
            /\ UNCHANGED crashed
  /\ UNCHANGED <<optVars, dataVars, sPc, sSel, sPending, sSelList, sFilters, ctx, semaCur, semaSize,
                 held, outcome, chanClosed, delivered, storeVars, histVars,
                 execVars>>

\* defer sema.Release(1): releasing more than is held panics.
WorkerRelease(i) ==
  /\ ~crashed
  /\ i \in DOMAIN worker
  /\ worker[i] = "release"
  /\ semaCur' = semaCur - 1
  /\ IF semaCur - 1 < 0
       THEN /\ crashed' = TRUE
            /\ worker' = [worker EXCEPT ![i] = "panicked"]
       ELSE /\ worker' = [worker EXCEPT ![i] = "done"]
            /\ UNCHANGED crashed
  /\ UNCHANGED <<optVars, dataVars, sPc, sSel, sPending, sSelList, sFilters, ctx, semaSize, held,
                 outcome, chanBuf, chanClosed, delivered, storeVars, histVars,
                 execVars>>

\* The consumer receives one Receipt from the channel.
Receive ==
  /\ ~crashed
  /\ chanBuf # <<>>
  /\ delivered' = Append(delivered, Head(chanBuf))
  /\ chanBuf' = Tail(chanBuf)
  /\ UNCHANGED <<optVars, dataVars, sPc, sSel, sPending, sSelList, sFilters, ctx, semaCur, semaSize,
                 worker, held, outcome, chanClosed, crashed, storeVars,
                 histVars, execVars>>

\* The caller cancels the context, or its deadline passes, while a replay
\* call is running.
CtxDone ==
  /\ ~crashed
  /\ sPc = "loop" \/ ePc = "run"
  /\ ctx = "live"
  /\ ctx' = "done"
  /\ UNCHANGED <<optVars, dataVars, sPc, sSel, sPending, sSelList, sFilters, semaCur, semaSize,
                 worker, held, outcome, chanBuf, chanClosed, delivered, crashed,
                 storeVars, histVars, execVars>>

\* The http.Response a Receipt holds after a successful replay: readable,
\* its body replaced by the bytes already read.
ReceiptResponse(rc) == [kind |-> "ok", val |-> rc.resp, ct |-> "json"]

\* The Receipts a caller holds: those Execute returned, those received from
\* the channel of SyncExecute.
Receipts ==
  (IF ePc = "done" THEN { eReceipts[k] : k \in DOMAIN eReceipts } ELSE {})
  \cup { delivered[k] : k \in DOMAIN delivered }

\* Whether FillInResponse stops at the Receipt's error.
FillRefusedNever(rc) == FALSE
FillRefused(rc) == rc.err # "none"

\* r.h.har.Log.Entries[r.index].Response = resp
FillStoreSkipped(h, i, v) == h
FillStore(h, i, v) == [h EXCEPT ![List[i]].response = v]

\* FillInResponse(withBody...): override is "none" without the argument.
\* An index outside the list panics after r.Entry.Response was assigned.
FillInResponse(rc, override) ==
  LET wb == IF override = "none" THEN IsRespBody(ReceiptResponse(rc))
            ELSE override = "true"
      nr == NewResponse(ReceiptResponse(rc), wb)
      h1 == [heap EXCEPT ![rc.entry].response = nr.val]
  IN
  /\ rc \in Receipts
  /\ IF FillRefused(rc)
       THEN /\ Record("FillInResponse", "", rc.err)
            /\ UNCHANGED heap
     ELSE IF nr.err # "none"
       THEN /\ Record("FillInResponse", "", nr.err)
            /\ UNCHANGED heap
     ELSE IF rc.index \in DOMAIN List
       THEN /\ MuLock
            /\ heap' = FillStore(h1, rc.index, nr.val)
            /\ Record("FillInResponse", "", "none")
     ELSE /\ MuLock
          /\ heap' = h1
          /\ Record("FillInResponse", "", "panic")
  /\ UNCHANGED <<optVars, dataVars, logs, harLog, index, concurrency, exported, execVars,
                 syncVars>>

Next ==
  \/ \E id \in Ids, r \in HttpRequests : AddRequest(id, r)
  \/ \E id \in Ids, resp \in HttpResponses : AddResponse(id, resp)
  \/ Reset
  \/ Export

\* The store under its own operations.
Spec == Init /\ [][Next]_vars

NextExport ==
  \/ \E id \in Ids, r \in HttpRequests : AddRequest(id, r)
  \/ Reset
  \/ Export
  \/ \E what \in {"comment", "entries", "entry"}, i \in 0..MaxEntries :
       MutateExport(what, i)

\* The store, and a caller that writes to the archive Export gave it.
SpecExport == Init /\ [][NextExport]_vars

\* Replay never reads the index: the store is one NewReader built.
InitReplay ==
  /\ InitStore({TRUE})
  /\ InitOptions(<<>>, <<>>, TRUE)
  /\ concurrency \in 0..MaxConc
  /\ ExecIdle
  /\ SyncIdle
  /\ DataIdle

NextReplay ==
  \/ \E fs \in FilterLists, c \in {"live", "done"} : ExecuteStart(fs, c)
  \/ \E i \in 1..MaxEntries, t \in TransportOutcomes : ExecuteStep(i, t)
  \/ ExecuteReturn
  \/ \E fs \in FilterLists, c \in {"live", "done"} : SyncStart(fs, c)
  \/ \E i \in 1..MaxEntries : ProducerLaunch(i)
  \/ ProducerClose
  \/ \E i \in 1..MaxEntries : WorkerBegin(i)
  \/ \E i \in 1..MaxEntries, t \in TransportOutcomes : WorkerReturn(i, t)
  \/ \E i \in 1..MaxEntries : WorkerSend(i)
  \/ \E i \in 1..MaxEntries : WorkerRelease(i)
  \/ Receive
  \/ CtxDone

\* One replay call at a time, sequential or concurrent, on a store as
\* constructed.
SpecReplay == InitReplay /\ [][NextReplay]_vars

InitRun ==
  /\ InitStoreOf(RunArchives, {TRUE})
  /\ \E c \in BOOLEAN : InitOptions(<<>>, <<>>, c)
  /\ concurrency = 0
  /\ ExecIdle
  /\ SyncIdle
  /\ DataIdle

\* Replay of entries whose requests differ in what EntryToRequest makes of
\* them, under either cookie policy.
SpecRun == InitRun /\ [][NextReplay]_vars

InitSelect ==
  /\ InitStoreOf(SelectArchives, {TRUE})
  /\ InitOptions(<<>>, <<>>, TRUE)
  /\ concurrency = 0
  /\ ExecIdle
  /\ SyncIdle
  /\ DataIdle

NextSelect ==
  \/ \E f \in ProbeFilters : ExecuteStart(<<f>>, "live")
  \/ \E i \in 1..MaxEntries, t \in TransportOutcomes : ExecuteStep(i, t)
  \/ ExecuteReturn

\* Sequential replay under one method or host filter.
SpecSelect == InitSelect /\ [][NextSelect]_vars

InitFill ==
  /\ InitStore({TRUE})
  /\ \E o \in {<<>>, <<WithBody(FALSE)>>} : InitOptions(<<>>, o, TRUE)
  /\ concurrency = 0
  /\ ExecIdle
  /\ SyncIdle
  /\ DataIdle

NextFill ==
  \/ \E f \in Filters : ExecuteStart(<<f>>, "live")
  \/ \E i \in 1..MaxEntries, t \in TransportOutcomes : ExecuteStep(i, t)
  \/ ExecuteReturn
  \/ \E k \in 1..MaxEntries, o \in {"none", "true", "false"} :
       k \in DOMAIN eReceipts /\ FillInResponse(eReceipts[k], o)
  \/ Reset
  \/ \E r \in HttpRequests : AddRequest("b", r)

\* Sequential replay, the commit of its Receipts, and the store operations
\* a caller may run in between.
SpecFill == InitFill /\ [][NextFill]_vars

InitCapture ==
  /\ InitStoreOf({<<>>}, {FALSE})
  /\ \E ro, so \in OptionLists : InitOptions(ro, so, TRUE)
  /\ concurrency = 1
  /\ ExecIdle
  /\ SyncIdle
  /\ DataIdle

NextCapture ==
  \/ \E id \in Ids, r \in HttpRequests : AddRequest(id, r)
  \/ \E id \in Ids, resp \in HttpResponses : AddResponse(id, resp)

\* ------------------------------------------------------------ JSON codecs
\* Bytes are numbers 0..255, the characters of a JSON string are code
\* points.  The longest text tried:
MaxText == 3

\* The byte 'A' and a byte no UTF-8 text holds on its own.
TextBytes == {65, 255}

\* The characters of the JSON strings decoded: 'A' and '!'.
TextChars == {65, 33}

\* U+FFFD, which json.Marshal writes for a byte that is not valid UTF-8.
ReplacementChar == 65533

\* utf8.Valid, on bytes: ASCII, or the three bytes of U+FFFD.
RECURSIVE ValidUTF8(_)
ValidUTF8(bs) ==
  IF bs = <<>> THEN TRUE
  ELSE IF bs[1] < 128 THEN ValidUTF8(Tail(bs))
  ELSE /\ Len(bs) >= 3
       /\ SubSeq(bs, 1, 3) = <<239, 191, 189>>
       /\ ValidUTF8(SubSeq(bs, 4, Len(bs)))

\* The JSON string json.Marshal writes for a Go string.
RECURSIVE CharsOf(_)
CharsOf(bs) ==
  IF bs = <<>> THEN <<>>
  ELSE IF bs[1] < 128 THEN <<bs[1]>> \o CharsOf(Tail(bs))
  ELSE IF Len(bs) >= 3 /\ SubSeq(bs, 1, 3) = <<239, 191, 189>>
    THEN <<ReplacementChar>> \o CharsOf(SubSeq(bs, 4, Len(bs)))
  ELSE <<ReplacementChar>> \o CharsOf(Tail(bs))

\* The Go string json.Unmarshal reads from a JSON string.
RECURSIVE BytesOf(_)
BytesOf(cs) ==
  IF cs = <<>> THEN <<>>
  ELSE IF cs[1] < 128 THEN <<cs[1]>> \o BytesOf(Tail(cs))
  ELSE <<239, 191, 189>> \o BytesOf(Tail(cs))

\* The base64 alphabet of base64.StdEncoding, and its padding character.
B64Char(v) ==
  IF v < 26 THEN 65 + v
  ELSE IF v < 52 THEN 97 + (v - 26)
  ELSE IF v < 62 THEN 48 + (v - 52)
  ELSE IF v = 62 THEN 43 ELSE 47

B64Pad == 61

\* The value of a base64 character, -1 for a character outside the alphabet.
B64Val(c) ==
  IF c >= 65 /\ c <= 90 THEN c - 65
  ELSE IF c >= 97 /\ c <= 122 THEN c - 97 + 26
  ELSE IF c >= 48 /\ c <= 57 THEN c - 48 + 52
  ELSE IF c = 43 THEN 62
  ELSE IF c = 47 THEN 63
  ELSE -1

\* base64.StdEncoding.EncodeToString
RECURSIVE B64Encode(_)
B64Encode(bs) ==
  IF bs = <<>> THEN <<>>
  ELSE IF Len(bs) = 1 THEN
    LET n == bs[1] * 16 IN
    <<B64Char(n \div 64), B64Char(n % 64), B64Pad, B64Pad>>
  ELSE IF Len(bs) = 2 THEN
    LET n == (bs[1] * 256 + bs[2]) * 4 IN
    <<B64Char(n \div 4096), B64Char((n \div 64) % 64), B64Char(n % 64), B64Pad>>
  ELSE
    LET n == bs[1] * 65536 + bs[2] * 256 + bs[3] IN
    <<B64Char(n \div 262144), B64Char((n \div 4096) % 64),
      B64Char((n \div 64) % 64), B64Char(n % 64)>>
    \o B64Encode(SubSeq(bs, 4, Len(bs)))

\* base64.StdEncoding.DecodeString: the bytes, or an error for a length
\* that is no multiple of 4, a character outside the alphabet or misplaced
\* padding.
RECURSIVE B64Decode(_)
B64Decode(cs) ==
  IF cs = <<>> THEN [ok |-> TRUE, bytes |-> <<>>]
  ELSE IF Len(cs) < 4 THEN [ok |-> FALSE, bytes |-> <<>>]
  ELSE
    LET q == SubSeq(cs, 1, 4)
        rest == SubSeq(cs, 5, Len(cs))
        v(k) == B64Val(q[k])
    IN
    IF v(1) < 0 \/ v(2) < 0 THEN [ok |-> FALSE, bytes |-> <<>>]
    ELSE IF q[3] = B64Pad /\ q[4] = B64Pad THEN
      IF rest # <<>> THEN [ok |-> FALSE, bytes |-> <<>>]
      ELSE [ok |-> TRUE, bytes |-> <<(v(1) * 64 + v(2)) \div 16>>]
    ELSE IF v(3) < 0 THEN [ok |-> FALSE, bytes |-> <<>>]
    ELSE IF q[4] = B64Pad THEN
      IF rest # <<>> THEN [ok |-> FALSE, bytes |-> <<>>]
      ELSE LET n == (v(1) * 4096 + v(2) * 64 + v(3)) \div 4 IN
           [ok |-> TRUE, bytes |-> <<n \div 256, n % 256>>]
    ELSE IF v(4) < 0 THEN [ok |-> FALSE, bytes |-> <<>>]
    ELSE LET n == v(1) * 262144 + v(2) * 4096 + v(3) * 64 + v(4)
             r == B64Decode(rest)
         IN IF r.ok
              THEN [ok |-> TRUE,
                    bytes |-> <<n \div 65536, (n \div 256) % 256, n % 256>>
                              \o r.bytes]
              ELSE [ok |-> FALSE, bytes |-> <<>>]

\* A Go value (PostData, Content): its text bytes and its Encoding field
\* (PostData has none: "").  A JSON object: its "text" string and its
\* "encoding" member ("" when absent).  The outcome of a codec function.
GoValue(text, encoding) == [text |-> text, encoding |-> encoding]
JsonObject(text, encoding) == [text |-> text, encoding |-> encoding]
Done(v) == [err |-> "none", v |-> v]
Failed(why) == [err |-> why, v |-> <<>>]

\* Whether PostData.MarshalJSON takes the binary representation.
NeedsBase64Never(text) == FALSE
NeedsBase64(text) == ~ValidUTF8(text)

\* PostData.MarshalJSON
PostDataMarshal(p) ==
  IF NeedsBase64(p.text)
    THEN Done(JsonObject(B64Encode(p.text), "base64"))
    ELSE Done(JsonObject(CharsOf(p.text), ""))

\* PostData.UnmarshalJSON
PostDataUnmarshal(j) ==
  IF j.encoding # "base64" THEN Done(GoValue(BytesOf(j.text), ""))
  ELSE IF B64Decode(j.text).ok THEN Done(GoValue(B64Decode(j.text).bytes, ""))
  ELSE Failed("base64")

\* Content.MarshalJSON: the representation follows the Encoding field.
ContentMarshal(c) ==
  IF c.encoding = "base64" THEN Done(JsonObject(B64Encode(c.text), "base64"))
  ELSE IF c.encoding = "" THEN Done(JsonObject(CharsOf(c.text), ""))
  ELSE Failed("unsupported encoding")

\* Decoding a Content: the type has no UnmarshalJSON, so encoding/json fills
\* Text []byte from the JSON string as base64, whatever "encoding" says.
ContentUnmarshal(j) ==
  IF B64Decode(j.text).ok THEN Done(GoValue(B64Decode(j.text).bytes, j.encoding))
  ELSE Failed("base64")

\* The Content NewResponse builds from a body.
NewResponseContent(body) == GoValue(body, "base64")

Marshal(kind, v) ==
  IF kind = "PostData" THEN PostDataMarshal(v) ELSE ContentMarshal(v)

Unmarshal(kind, j) ==
  IF kind = "PostData" THEN PostDataUnmarshal(j) ELSE ContentUnmarshal(j)

\* The values encoded and the JSON objects decoded.
Texts == SeqsUpTo(TextBytes, MaxText)

CodecValues(kind) ==
  IF kind = "PostData" THEN { GoValue(t, "") : t \in Texts }
  ELSE { GoValue(t, e) : t \in Texts, e \in {"", "base64"} }
       \cup { NewResponseContent(t) : t \in Texts }

JsonObjects ==
  { JsonObject(t, e) : t \in SeqsUpTo(TextChars, MaxText + 1),
                       e \in {"", "base64"} }

\* A run starts from a Go value (it is encoded, then decoded) or from a
\* JSON object (it is decoded, encoded, and decoded again).
InitCodec ==
  /\ InitStoreOf({<<>>}, {FALSE})
  /\ InitOptions(<<>>, <<>>, TRUE)
  /\ concurrency = 1
  /\ ExecIdle
  /\ SyncIdle
  /\ now = 0 /\ ParseIdle /\ LockIdle
  /\ cKind \in {"PostData", "Content"}
  /\ cJson = <<>> /\ cBack = <<>>
  /\ \/ cPc = "value" /\ cSrc = <<>> /\ cVal \in CodecValues(cKind)
     \/ cPc = "json" /\ cSrc \in JsonObjects /\ cVal = <<>>

\* json.Unmarshal of the source object.
DecodeSource ==
  /\ cPc = "json"
  /\ LET r == Unmarshal(cKind, cSrc) IN
       IF r.err = "none" THEN cPc' = "value" /\ cVal' = r.v
       ELSE cPc' = "rejected" /\ UNCHANGED cVal
  /\ UNCHANGED <<cKind, cSrc, cJson, cBack, now, parseVars, lockVars, storeVars,
                 optVars, histVars, execVars, syncVars>>

\* json.Marshal of the value.
Encode ==
  /\ cPc = "value"
  /\ LET r == Marshal(cKind, cVal) IN
       IF r.err = "none" THEN cPc' = "encoded" /\ cJson' = r.v
       ELSE cPc' = "unencodable" /\ UNCHANGED cJson
  /\ UNCHANGED <<cKind, cSrc, cVal, cBack, now, parseVars, lockVars, storeVars,
                 optVars, histVars, execVars, syncVars>>

\* json.Unmarshal of what Encode wrote.
Decode ==
  /\ cPc = "encoded"
  /\ cBack' = Unmarshal(cKind, cJson)
  /\ cPc' = "decoded"
  /\ UNCHANGED <<cKind, cSrc, cVal, cJson, now, parseVars, lockVars, storeVars,
                 optVars, histVars, execVars, syncVars>>

NextCodec == DecodeSource \/ Encode \/ Decode

\* The JSON codecs of PostData and Content, on every small input.
SpecCodec == InitCodec /\ [][NextCodec]_vars

\* ------------------------------------------------------------- NewReader
\* Nested calls the goroutine stack holds before the runtime ends the
\* process with a stack overflow.
MaxStack == 8

\* NewReader(r): decode.Decode(&har) finds that *Har is a json.Unmarshaler
\* and calls har.UnmarshalJSON with the archive's bytes.
NewReaderCall(arch) ==
  /\ pPc = "idle"
  /\ pPc' = "decode"
  /\ pInput' = arch
  /\ pDepth' = 1
  /\ UNCHANGED <<now, codecVars, lockVars, storeVars, optVars, histVars,
                 execVars, syncVars>>

\* Har.UnmarshalJSON: json.Unmarshal(bytes, h), which again finds that h is
\* a json.Unmarshaler and calls h.UnmarshalJSON with the same bytes.
HarUnmarshalJSON ==
  /\ pPc = "decode"
  /\ pDepth < MaxStack
  /\ pDepth' = pDepth + 1
  /\ UNCHANGED <<pPc, pInput, now, codecVars, lockVars, storeVars, optVars,
                 histVars, execVars, syncVars>>

\* The stack is exhausted: a fatal error no recover catches.
StackOverflow ==
  /\ pPc = "decode"
  /\ pDepth = MaxStack
  /\ pPc' = "overflow"
  /\ UNCHANGED <<pDepth, pInput, now, codecVars, lockVars, storeVars, optVars,
                 histVars, execVars, syncVars>>

InitParse ==
  /\ InitStoreOf({<<>>}, {FALSE})
  /\ InitOptions(<<>>, <<>>, TRUE)
  /\ concurrency = 1
  /\ ExecIdle
  /\ SyncIdle
  /\ DataIdle

NextParse ==
  \/ \E arch \in InitArchives : NewReaderCall(arch)
  \/ HarUnmarshalJSON
  \/ StackOverflow

\* One call of NewReader on a well-formed archive.
SpecParse == InitParse /\ [][NextParse]_vars

\* Time passes.
MaxClock == 2

Tick ==
  /\ now < MaxClock
  /\ now' = now + 1
  /\ UNCHANGED <<storeVars, optVars, histVars, execVars, syncVars, codecVars,
                 parseVars, lockVars>>

InitClock ==
  /\ InitStoreOf({<<>>}, {FALSE})
  /\ InitOptions(<<>>, <<>>, TRUE)
  /\ concurrency = 1
  /\ ExecIdle
  /\ SyncIdle
  /\ DataIdle

NextClock ==
  \/ \E id \in Ids, r \in HttpRequests : AddRequest(id, r)
  \/ \E id \in Ids, resp \in HttpResponses : AddResponse(id, resp)
  \/ Tick

\* Recording while the clock advances.
SpecClock == InitClock /\ [][NextClock]_vars

\* ------------------------------------------------- selection, step by step
\* regexp.MatchString for the patterns in use: anchored literals.
MatchString(r, u) == r = u

\* A predicate a caller wrote (a RequestOption of its own, or the handler
\* given to WithRequestHandler) that calls the store operation `op` on the
\* Handler.
Custom(op) == [kind |-> "Custom", arg |-> op]

\* WithRequestHostRegexp(regexps...): the list may hold a nil *Regexp.
WithRequestHostRegexp(regexps) == [kind |-> "HostRegexp", arg |-> regexps]

\* f(h, entry) as a call: "true" or "false" when it returns, "panic" when it
\* faults (MatchString on a nil *Regexp), "lock" when it reaches h.mu.Lock()
\* inside a store operation.
FilterCall(f, e) ==
  IF f.kind = "Custom" THEN "lock"
  ELSE IF f.kind = "HostRegexp"
    THEN LET stop == { k \in DOMAIN f.arg :
                         f.arg[k] = "nil" \/ MatchString(f.arg[k], e.req.url) }
             first == CHOOSE k \in stop : \A j \in stop : k <= j
         IN IF stop = {} THEN "false"
            ELSE IF f.arg[first] = "nil" THEN "panic"
            ELSE "true"
  ELSE IF Matches(f, e) THEN "true" ELSE "false"

\* The inner loop of the selection as calls: every filter is called, in
\* order, also after one returned true; the first that does not return
\* decides.
FilterCalls(filters, e) ==
  LET stuck == { k \in DOMAIN filters :
                   FilterCall(filters[k], e) \in {"panic", "lock"} }
      first == CHOOSE k \in stuck : \A j \in stuck : k <= j
  IN IF stuck # {} THEN FilterCall(filters[first], e)
     ELSE IF \E k \in DOMAIN filters : FilterCall(filters[k], e) = "true"
       THEN "true"
     ELSE "false"

\* The filters the step-by-step selection is run with.
LockFilters ==
  { [kind |-> "UrlIs", arg |-> {"x"}],
    [kind |-> "UrlIs", arg |-> {"z"}],
    Custom("EntryTotal"), Custom("Export"), Custom("AddRequest"),
    WithRequestHostRegexp(<<"nil">>),
    WithRequestHostRegexp(<<"y", "nil">>) }

\* h.mu.Unlock()
MuUnlockMissing == mu
MuUnlock == "free"

\* Execute or SyncExecute (mode) is called, once: h.mu.Lock() before the
\* loop.
SelectLock(mode, filters) ==
  /\ ReplayQuiet
  /\ lPc = "idle"
  /\ MuLock
  /\ mu' = "select"
  /\ lPc' = "select"
  /\ lMode' = mode
  /\ lFilters' = filters
  /\ lPos' = 1
  /\ lHit' = {}
  /\ UNCHANGED <<restVars, storeVars, optVars, histVars, execVars, syncVars>>

\* One iteration of the loop over h.har.Log.Entries, the lock held.  A
\* filter that panics unwinds Execute / SyncExecute, which has no deferred
\* Unlock; a filter that reaches h.mu.Lock() waits for the lock its own
\* goroutine holds.
SelectEntry ==
  /\ lPc = "select"
  /\ lPos \in DOMAIN List
  /\ LET o == FilterCalls(lFilters, heap[List[lPos]]) IN
       /\ lPc' = IF o = "panic" THEN "panicked"
                 ELSE IF o = "lock" THEN "waiting"
                 ELSE lPc
       /\ lHit' = IF o = "true" THEN lHit \cup {lPos} ELSE lHit
       /\ lPos' = IF o \in {"true", "false"} THEN lPos + 1 ELSE lPos
  /\ UNCHANGED <<mu, lMode, lFilters, restVars, storeVars, optVars, histVars,
                 execVars, syncVars>>

\* The loop is over: h.mu.Unlock(), then the call goes on with its
\* selection.
SelectUnlock ==
  /\ lPc = "select"
  /\ lPos > Len(List)
  /\ mu' = MuUnlock
  /\ lPc' = "done"
  /\ IF lMode = "Execute"
       THEN ExecuteBegin(SelectionOf(lHit), lFilters, "live")
       ELSE SyncBegin(SelectionOf(lHit), lFilters, "live")
  /\ UNCHANGED <<lMode, lFilters, lPos, lHit>>

\* EntryTotal(), called by another goroutine.
EntryTotalCall ==
  /\ MuLock
  /\ Record("EntryTotal", "", "none")
  /\ UNCHANGED <<storeVars, optVars, execVars, syncVars, dataVars>>

\* Archives whose entries differ.
LockArchives ==
  { arch \in InitArchives :
      \A i, j \in DOMAIN arch : arch[i] = arch[j] => i = j }

InitLock ==
  /\ InitStoreOf(LockArchives, {TRUE})
  /\ InitOptions(<<>>, <<>>, TRUE)
  /\ concurrency = 0
  /\ ExecIdle
  /\ SyncIdle
  /\ DataIdle

NextLock ==
  \/ \E mode \in {"Execute", "SyncExecute"}, f \in LockFilters :
       SelectLock(mode, <<f>>)
  \/ SelectEntry
  \/ SelectUnlock
  \/ \E i \in 1..MaxEntries : ExecuteStep(i, "ok")
  \/ ExecuteReturn
  \/ \E i \in 1..MaxEntries : ProducerLaunch(i)
  \/ ProducerClose
  \/ \E i \in 1..MaxEntries : WorkerBegin(i)
  \/ \E i \in 1..MaxEntries : WorkerReturn(i, "ok")
  \/ \E i \in 1..MaxEntries : WorkerSend(i)
  \/ \E i \in 1..MaxEntries : WorkerRelease(i)
  \/ \E r \in HttpRequests : AddRequest("b", r)
  \/ \E resp \in HttpResponses : AddResponse("a", resp)
  \/ Reset
  \/ Export
  \/ EntryTotalCall

\* One replay call with its selection taken entry by entry under the lock,
\* and the store operations of other goroutines.
SpecLock == InitLock /\ [][NextLock]_vars

\* ------------------------------------------------ SyncExecute, scheduled
NextSync ==
  \/ \E f \in Filters, c \in {"live", "done"} : SyncStart(<<f>>, c)
  \/ \E i \in 1..MaxEntries : ProducerLaunch(i)
  \/ ProducerClose
  \/ \E i \in 1..MaxEntries : WorkerBegin(i)
  \/ \E i \in 1..MaxEntries, t \in TransportOutcomes : WorkerReturn(i, t)
  \/ \E i \in 1..MaxEntries : WorkerSend(i)
  \/ \E i \in 1..MaxEntries : WorkerRelease(i)
  \/ Receive
  \/ CtxDone

\* The Go scheduler runs every goroutine that can run, and the transport
\* returns from every call.  Nothing makes the caller call SyncExecute,
\* cancel the context or receive from the channel.
\* Every step of the producer and of a worker moves one of these.
schedVars == <<sPc, sPending, worker>>

FairSync ==
  /\ WF_schedVars(\E i \in 1..MaxEntries : ProducerLaunch(i))
  /\ WF_schedVars(ProducerClose)
  /\ WF_schedVars(\E i \in 1..MaxEntries : WorkerBegin(i))
  /\ WF_schedVars(\E i \in 1..MaxEntries, t \in TransportOutcomes : WorkerReturn(i, t))
  /\ WF_schedVars(\E i \in 1..MaxEntries : WorkerSend(i))
  /\ WF_schedVars(\E i \in 1..MaxEntries : WorkerRelease(i))

\* Concurrent replay under fair scheduling.
SpecSync == InitReplay /\ [][NextSync]_vars /\ FairSync

\* Recording on a handler built with body-capture options.
SpecCapture == InitCapture /\ [][NextCapture]_vars

\* ================================================================ claims
\* The requests inside the transport right now.
InTransport == { i \in DOMAIN worker : worker[i] = "transport" }

\* The Receipts sent on the channel so far, received or still buffered.
Sent == delivered \o chanBuf

\* C1: in a SyncExecute with limit N > 0, at no moment are more than N
\* requests executing in the transport, whatever the caller's context.
C1_ConcurrencyBound ==
  concurrency > 0 => Cardinality(InTransport) <= concurrency

\* C2: the receipt channel is closed only after every launched worker has
\* finished; no worker is still running, and no Receipt is sent, once it is
\* closed, whatever the caller's context.
C2_CloseAfterWorkers ==
  chanClosed => \A i \in DOMAIN worker : worker[i] = "done"

\* The positions of a sequence of Receipts, and each position occurring once.
Positions(rs) == { rs[k].index : k \in DOMAIN rs }
OncePerEntry(rs, sel) ==
  /\ Positions(rs) = DOMAIN sel
  /\ Len(rs) = Cardinality(DOMAIN sel)

\* C3: a batch replay yields exactly one Receipt for every selected entry:
\* Execute returns one per selected entry, and SyncExecute has sent one per
\* selected entry on the channel by the time the channel is closed.
C3_OneReceiptPerEntry ==
  /\ ePc = "done" => OncePerEntry(eReceipts, eSel)
  /\ chanClosed => OncePerEntry(Sent, sSel)

\* C4: an AddRequest whose id the index already holds (a second call with
\* the same id) returns an error and leaves the entries, the list and the
\* index as they were; the index files exactly one entry under the id, and
\* the list holds that entry exactly once.
C4_DuplicateRejected ==
  [][\A id \in Ids, r \in HttpRequests :
       (AddRequest(id, r) /\ id \in DOMAIN index) =>
         /\ last'.err # "none"
         /\ UNCHANGED <<heap, logs, harLog, index>>
         /\ heap'[index'[id]].pageRef = id
         /\ Cardinality({ i \in DOMAIN List' : List'[i] = index'[id] }) = 1]_vars

\* C4 witness: AddRequest("b") succeeded (no archive given at construction
\* holds "b"), and a second AddRequest("b") was just rejected.
C4_Witness ==
  /\ last = Call("AddRequest", "b", "duplicate")
  /\ "b" \in DOMAIN index
  /\ EntryTotal >= 1

\* C5: no mutation of the archive Export returned (a field of its Log, its
\* entry list, an entry reached through it) shows in the live store.
C5_ExportIndependent ==
  [][\A what \in {"comment", "entries", "entry"}, i \in 0..MaxEntries :
       MutateExport(what, i) => StoreView' = StoreView]_vars

\* C6 as stated: AddResponse with an id the index does not hold and a
\* non-nil response returns no error and changes nothing in the store.
C6_UnknownIdNoError ==
  [][\A id \in Ids, resp \in HttpResponses :
       (AddResponse(id, resp) /\ id \notin DOMAIN index /\ resp.kind # "nil") =>
         /\ last'.err = "none"
         /\ UNCHANGED <<heap, logs, harLog, index>>]_vars

\* C6 amended: AddResponse with an id the index does not hold and a non-nil
\* response changes nothing in the store; it returns no error when
\* NewResponse can convert the response, and NewResponse's error when it
\* cannot.
C6_UnknownIdNoOp ==
  [][\A id \in Ids, resp \in HttpResponses :
       (AddResponse(id, resp) /\ id \notin DOMAIN index /\ resp.kind # "nil") =>
         /\ last'.err = NewResponse(resp, IsRespBody(resp)).err
         /\ (resp.kind = "ok" => last'.err = "none")
         /\ UNCHANGED <<heap, logs, harLog, index>>]_vars

\* C6 witness: AddResponse("a") returned no error on a store whose list
\* holds an entry with pageRef "a" that the index does not know, and the
\* entry kept its response.
C6_Witness ==
  /\ last = Call("AddResponse", "a", "none")
  /\ "a" \notin DOMAIN index
  /\ \E i \in DOMAIN List : /\ heap[List[i]].pageRef = "a"
                            /\ heap[List[i]].response = "archived"

\* C7: after Reset, on an empty or a populated store, EntryTotal is 0 and
\* the index is empty; a second Reset leaves the same state; and an
\* AddRequest right after a Reset succeeds for any id, one used before the
\* Reset included.
C7_ResetIdempotent ==
  [][/\ Reset => /\ EntryTotal' = 0
                 /\ DOMAIN index' = {}
                 /\ StoreView' = [comment |-> "", entries |-> <<>>]
                 /\ (last.op = "Reset" => StoreView' = StoreView /\ index' = index)
     /\ \A id \in Ids, r \in HttpRequests :
          (AddRequest(id, r) /\ last.op = "Reset" /\ NewRequest(r, IsReqBody(r)).err = "none") =>
            /\ last'.err = "none"
            /\ EntryTotal' = 1
            /\ id \in DOMAIN index']_vars

\* C7 witness: the archive a caller exported before the Reset still shows an
\* entry filed under "b"; after the Reset, AddRequest("b") succeeded again.
C7_Witness ==
  /\ last = Call("AddRequest", "b", "none")
  /\ EntryTotal = 1
  /\ exported # NoLog /\ exported # harLog
  /\ \E i \in DOMAIN logs[exported].entries :
       heap[logs[exported].entries[i]].pageRef = "b"

\* The positions of `list` whose entry at least one of `filters` accepts.
AnyFilter(filters, list) ==
  { i \in DOMAIN list :
      \E k \in DOMAIN filters : Matches(filters[k], heap[list[i]]) }

\* C8: filters combine with OR: the entries replayed by Execute and
\* SyncExecute are exactly the store entries at least one filter accepts,
\* each once however many filters accept it.
C8_FiltersOr ==
  /\ ePc # "idle" =>
       /\ DOMAIN eSel = AnyFilter(eFilters, eSelList)
       /\ Positions(eReceipts) \cup eTodo = AnyFilter(eFilters, eSelList)
       /\ Len(eReceipts) = Cardinality(Positions(eReceipts))
  /\ sPc # "idle" =>
       /\ DOMAIN sSel = AnyFilter(sFilters, sSelList)
       /\ DOMAIN worker = AnyFilter(sFilters, sSelList)
       /\ Positions(Sent) \subseteq AnyFilter(sFilters, sSelList)
       /\ Len(Sent) = Cardinality(Positions(Sent))

\* C8 witness: Execute returned under two filters, of which one entry
\* satisfies only one (it was replayed once) and another none (it was not).
C8_Witness ==
  /\ ePc = "done"
  /\ Len(eFilters) = 2 /\ eFilters[1] # eFilters[2]
  /\ \E i, j \in DOMAIN eSelList :
       /\ Matches(eFilters[1], heap[eSelList[i]])
       /\ ~Matches(eFilters[2], heap[eSelList[i]])
       /\ Cardinality({ k \in DOMAIN eReceipts : eReceipts[k].index = i }) = 1
       /\ ~Matches(eFilters[1], heap[eSelList[j]])
       /\ ~Matches(eFilters[2], heap[eSelList[j]])
       /\ j \notin Positions(eReceipts)

\* C9: Execute returns the Receipts in archive order: for selected
\* positions i < j, the Receipt for i precedes the Receipt for j.
C9_ExecuteOrder ==
  \A p, q \in DOMAIN eReceipts :
    p < q => eReceipts[p].index < eReceipts[q].index

\* C10: every Receipt of Execute and SyncExecute carries the position its
\* Entry had in the store's list at selection time.
C10_ReceiptIndex ==
  /\ \A k \in DOMAIN eReceipts :
       /\ eReceipts[k].index \in DOMAIN eSelList
       /\ eSelList[eReceipts[k].index] = eReceipts[k].entry
  /\ \A k \in DOMAIN Sent :
       /\ Sent[k].index \in DOMAIN sSelList
       /\ sSelList[Sent[k].index] = Sent[k].entry

\* C10 witness: the consumer received a Receipt for the entry at position 2
\* of a list whose position 1 was not selected.
C10_Witness ==
  /\ 1 \notin DOMAIN sSel
  /\ \E k \in DOMAIN delivered :
       /\ delivered[k].index = 2
       /\ delivered[k].entry = sSelList[2]

\* The workers that have built their Receipt.
Built == { i \in DOMAIN worker : worker[i] \notin {"none", "started", "transport"} }

\* A Receipt reports a request-build error, with no response, exactly when
\* its entry's stored request cannot be rebuilt.
BuildFaithful(rc) ==
  IF Unparsable(heap[rc.entry].req.url)
    THEN rc.err = "build" /\ rc.resp = "nil"
    ELSE rc.err # "build"

Panics(e, t) ==
  \/ EntryToRequest(e, TRUE).err = "panic"
  \/ EntryToRequest(e, TRUE).err = "none" /\ t = "panic"

\* C12: a panic while one entry's request is built or executed is recovered
\* and becomes a failed Receipt carrying an error: the step ends neither
\* Execute nor the process, and the remaining entries are still processed.
C12_PanicRecovered ==
  [][/\ \A i \in 1..MaxEntries, t \in TransportOutcomes :
          /\ ExecuteStep(i, t) =>
                /\ ePc' = "run" /\ ~crashed'
                /\ Len(eReceipts') = Len(eReceipts) + 1
                /\ eTodo' = eTodo \ {i}
                /\ Panics(heap[eSel[i]], t) =>
                      /\ eReceipts'[Len(eReceipts')].err = "panic"
                      /\ eReceipts'[Len(eReceipts')].resp = "nil"
          /\ WorkerReturn(i, t) =>
                /\ ~crashed' /\ worker'[i] = "send"
                /\ \A j \in DOMAIN worker \ {i} : worker'[j] = worker[j]
                /\ Panics(heap[sSel[i]], t) =>
                      /\ outcome'[i].err = "panic"
                      /\ outcome'[i].resp = "nil"
     /\ ePc' = "done" => OncePerEntry(eReceipts', eSel')]_vars

\* C12 witness: Execute returned after a panic in the first entry's replay,
\* with a Receipt for the entry replayed after it.
C12_Witness ==
  /\ ePc = "done"
  /\ Len(eReceipts) >= 2
  /\ eReceipts[1].err = "panic"
  /\ eReceipts[2].err = "none"

\* C13: a request replayed while the caller's context is cancelled or
\* expired yields a failed Receipt whose error is the context's, in Execute
\* and in SyncExecute.
C13_CancelClassified ==
  [][\A i \in 1..MaxEntries, t \in TransportOutcomes :
       /\ (ExecuteStep(i, t) /\ ctx = "done") =>
             eReceipts'[Len(eReceipts')].err = "cancelled"
       /\ (WorkerReturn(i, t) /\ ctx = "done") =>
             outcome'[i].err = "cancelled"]_vars

\* The workers that took an admission slot and have not released it.
Holding ==
  { i \in DOMAIN worker : held[i] /\ worker[i] \notin {"done", "panicked"} }

\* C14: whatever the context, the slots taken from the semaphore are those
\* of the workers holding one, so that none is held once the last worker
\* has ended (before the producer's closing Acquire).
C14_NoSlotLeak ==
  sPc = "loop" => semaCur = Cardinality(Holding)

\* C15: FillInResponse on a Receipt that carries an error returns an error
\* and commits nothing: every entry (the Receipt's own included), the list
\* and the index stay as they were.
C15_FillRefusesError ==
  [][\A k \in 1..MaxEntries, o \in {"none", "true", "false"} :
       (/\ k \in DOMAIN eReceipts
        /\ eReceipts[k].err # "none"
        /\ FillInResponse(eReceipts[k], o)) =>
         /\ last'.op = "FillInResponse" /\ last'.err # "none"
         /\ UNCHANGED <<heap, logs, harLog, index>>]_vars

\* C15 witness: FillInResponse returned the transport error of its Receipt,
\* whose entry still has the archived response.
C15_Witness ==
  /\ last = Call("FillInResponse", "", "transport")
  /\ \E k \in DOMAIN eReceipts :
       /\ eReceipts[k].err = "transport"
       /\ heap[eReceipts[k].entry].response = "archived"

\* C16: a FillInResponse that succeeds writes, in the one step it takes
\* under the store lock, the same newly derived Response to the Receipt's
\* Entry and to the store's entry at the recorded index, and nothing else.
C16_FillWritesBoth ==
  [][\A k \in 1..MaxEntries, o \in {"none", "true", "false"} :
       (/\ k \in DOMAIN eReceipts
        /\ FillInResponse(eReceipts[k], o)
        /\ last'.err = "none") =>
         LET rc == eReceipts[k]
             wb == IF o = "none" THEN IsRespBody(ReceiptResponse(rc))
                   ELSE o = "true"
             v  == NewResponse(ReceiptResponse(rc), wb).val
         IN /\ rc.index \in DOMAIN List
            /\ heap'[rc.entry].response = v
            /\ heap'[List[rc.index]].response = v
            /\ \A a \in EntryAddrs \ {rc.entry, List[rc.index]} :
                 heap'[a] = heap[a]
            /\ UNCHANGED <<logs, harLog, index>>]_vars

\* C16 witness: after a Reset and an AddRequest the recorded index names a
\* new entry; FillInResponse succeeded, and the Receipt's Entry and the
\* store's entry at that index both hold the replayed response.
C16_Witness ==
  /\ last = Call("FillInResponse", "", "none")
  /\ \E k \in DOMAIN eReceipts :
       /\ eReceipts[k].index \in DOMAIN List
       /\ List[eReceipts[k].index] # eReceipts[k].entry
       /\ heap[eReceipts[k].entry].response = "resp"
       /\ heap[List[eReceipts[k].index]].response = "resp"

\* C17: no step of Execute or SyncExecute changes the store: the entries
\* (Request, Response and time of matched and unmatched ones alike), the
\* list and its order, and the index are after the call what they were
\* before it.
C17_ReplayKeepsStore ==
  [][NextReplay => UNCHANGED <<heap, logs, harLog, index>>]_vars

\* C17 witness: Execute returned a Receipt with a response for one entry and
\* left another unselected; both still hold the archived response.
C17_Witness ==
  /\ ePc = "done"
  /\ eSelList = List
  /\ \E k \in DOMAIN eReceipts, j \in DOMAIN List :
       /\ eReceipts[k].resp = "resp"
       /\ heap[eReceipts[k].entry].response = "archived"
       /\ j \notin DOMAIN eSel
       /\ heap[List[j]].response = "archived"

\* The Receipts built so far, by Execute and by the workers of SyncExecute.
BuiltReceipts ==
  { eReceipts[k] : k \in DOMAIN eReceipts } \cup { outcome[i] : i \in Built }

\* C18: with the cookie policy set to false, no request built by Execute or
\* by SyncExecute carries the entry's cookies.
C18_CookiePolicy ==
  ~cookie => \A rc \in BuiltReceipts : rc.request.cookies = {}

\* A header name that is Cookie in some letter case.
IsCookieName(n) == n \in {"Cookie", "cookie"}

\* The name/value pairs of the stored headers a rebuilt request is to carry.
ExpectedHeaders(e) ==
  { <<CanonicalKey(e.req.headers[k].name), e.req.headers[k].value>> :
      k \in { j \in DOMAIN e.req.headers :
                /\ ValidHeaderFieldName(e.req.headers[j].name)
                /\ ValidHeaderFieldValue(e.req.headers[j].value)
                /\ ~IsCookieName(e.req.headers[j].name) } }

\* C19: the request rebuilt from an entry carries every stored header with
\* a valid name and value, each with its stored value, except the stored
\* Cookie headers, whatever the letter case of their name.
C19_HeadersCopied ==
  \A rc \in BuiltReceipts :
    rc.err \notin {"build", "panic"} =>
      { <<rc.request.headers[k].name, rc.request.headers[k].value>> :
          k \in DOMAIN rc.request.headers } = ExpectedHeaders(heap[rc.entry])

\* The capture policy the construction options decide: the last option
\* given wins, the built-in default (capture) holding when none is given.
Policy(handlers, msg) == BodyHandler(handlers[Len(handlers)], msg)

\* C20: when the policy the construction options decide excludes the
\* message, AddRequest and AddResponse record no body content.
C20_BodyPolicy ==
  [][/\ \A id \in Ids, r \in HttpRequests :
          (AddRequest(id, r) /\ last'.err = "none" /\ ~Policy(reqBody, r)) =>
            heap'[index'[id]].req.body # "text"
     /\ \A id \in Ids, resp \in HttpResponses :
          (/\ AddResponse(id, resp) /\ last'.err = "none"
           /\ id \in DOMAIN index /\ ~Policy(respBody, resp)) =>
            heap'[index[id]].response = NoText]_vars

\* The host component of a request URL (url.Parse(u).Host).
HostOf(u) ==
  IF u \in {"http://h/p", "https://h/q"} THEN "h"
  ELSE IF u = "http://g/p" THEN "g"
  ELSE ""

\* The positions Execute selected under its single filter, and the entry at
\* a position of the list it selected from.
Chosen == DOMAIN eSel
EntryAt(i) == heap[eSelList[i]]

\* C21: WithRequestMethod selects an entry exactly when its stored method
\* equals one of the listed methods, letter case ignored on both sides.
C21_MethodIgnoresCase ==
  (ePc # "idle" /\ Len(eFilters) = 1 /\ eFilters[1].kind = "Method") =>
    Chosen = { i \in DOMAIN eSelList :
                 \E r \in eFilters[1].arg :
                   ToUpper(EntryAt(i).req.method) = ToUpper(r) }

\* C22: WithSkipRequestMethod selects an entry exactly when its method is
\* none of the listed methods.
C22_MethodExcluded ==
  (ePc # "idle" /\ Len(eFilters) = 1 /\ eFilters[1].kind = "SkipMethod") =>
    Chosen = { i \in DOMAIN eSelList :
                 \A r \in eFilters[1].arg :
                   ToUpper(EntryAt(i).req.method) # ToUpper(r) }

\* C23: WithRequestHostIs selects an entry exactly when the host of its
\* request URL is one of the listed hosts, whatever the scheme, path and
\* query.
C23_HostMembership ==
  (ePc # "idle" /\ Len(eFilters) = 1 /\ eFilters[1].kind = "HostIs") =>
    Chosen = { i \in DOMAIN eSelList : HostOf(EntryAt(i).req.url) \in eFilters[1].arg }

\* C28: a successful AddRequest(id) appends exactly one entry at the end of
\* the list, with pageRef id, a placeholder Response and time -1; a later
\* successful AddResponse(id) replaces that Response and sets the entry's
\* time to the time elapsed since the startedDateTime AddRequest wrote.
C28_Lifecycle ==
  [][/\ \A id \in Ids, r \in HttpRequests :
          (AddRequest(id, r) /\ last'.err = "none") =>
            /\ Len(List') = Len(List) + 1
            /\ SubSeq(List', 1, Len(List)) = List
            /\ heap'[List'[Len(List')]].pageRef = id
            /\ heap'[List'[Len(List')]].response = "placeholder"
            /\ heap'[List'[Len(List')]].time = -1
            /\ heap'[List'[Len(List')]].started.at = now
     /\ \A id \in Ids, resp \in HttpResponses :
          (AddResponse(id, resp) /\ last'.err = "none" /\ id \in DOMAIN index) =>
            /\ heap'[index[id]].response = NewResponse(resp, IsRespBody(resp)).val
            /\ heap'[index[id]].time = now - heap[index[id]].started.at]_vars

\* C24: a PostData whose text is not valid UTF-8 is serialized with
\* encoding "base64" and decodes back to the same bytes; one whose text is
\* valid UTF-8 is serialized as plain text without an encoding marker (and
\* decodes back to the same bytes); on decode the text is base64-decoded
\* only when the JSON encoding member equals "base64".
C24_PostDataBinarySafe ==
  cKind = "PostData" =>
    /\ (cPc \in {"encoded", "decoded"} /\ ValidUTF8(cVal.text)) =>
          cJson = JsonObject(CharsOf(cVal.text), "")
    /\ (cPc \in {"encoded", "decoded"} /\ ~ValidUTF8(cVal.text)) =>
          /\ cJson.encoding = "base64"
          /\ B64Decode(cJson.text) = [ok |-> TRUE, bytes |-> cVal.text]
    /\ cPc = "decoded" => cBack = Done(cVal)
    /\ (cSrc # <<>> /\ cPc = "value") =>
          cVal.text = IF cSrc.encoding = "base64" THEN B64Decode(cSrc.text).bytes
                      ELSE BytesOf(cSrc.text)
    /\ (cSrc # <<>> /\ cPc = "rejected") => cSrc.encoding = "base64"

\* C24 witness: a PostData holding a byte that is no UTF-8 went through
\* base64 and came back with the same bytes.
C24_Witness ==
  /\ cKind = "PostData" /\ cPc = "decoded"
  /\ cVal.text = <<65, 255>>
  /\ cJson.encoding = "base64"
  /\ cBack.err = "none" /\ cBack.v.text = <<65, 255>>

\* C25: the encoding of a Content is chosen from its bytes: valid UTF-8 is
\* serialized as plain text without an encoding marker, anything else as
\* base64 with encoding "base64", and decodes back to the same bytes.
C25_ContentBinarySafe ==
  (cKind = "Content" /\ cSrc = <<>>) =>
    /\ cPc # "unencodable"
    /\ (cPc \in {"encoded", "decoded"} /\ ValidUTF8(cVal.text)) =>
          cJson = JsonObject(CharsOf(cVal.text), "")
    /\ (cPc \in {"encoded", "decoded"} /\ ~ValidUTF8(cVal.text)) =>
          /\ cJson.encoding = "base64"
          /\ B64Decode(cJson.text) = [ok |-> TRUE, bytes |-> cVal.text]
    /\ cPc = "decoded" => (cBack.err = "none" /\ cBack.v.text = cVal.text)

\* C26: what was successfully decoded from JSON is, after encoding it and
\* decoding the result, structurally equal: same content bytes, same
\* encoding marker.
C26_RoundTrip ==
  /\ (cSrc # <<>> /\ cPc = "value") => Marshal(cKind, cVal).err = "none"
  /\ (cSrc # <<>> /\ cPc = "decoded") => cBack = Done(cVal)

\* C27: NewReader (and Parse) on a well-formed archive ends without error,
\* never in a crash, and the store it yields has as many entries as the
\* JSON and indexes every non-empty pageRef of those entries.
C27_ParseTerminates ==
  /\ pPc \in {"idle", "decode", "done"}
  /\ pPc = "done" =>
       /\ EntryTotal = Len(pInput)
       /\ DOMAIN index = { pInput[i].pageRef : i \in DOMAIN pInput } \ {""}

\* C29: an AddRequest whose id is the non-empty pageRef of an entry already
\* in the list is rejected as a duplicate and changes nothing, wherever
\* that entry came from: an earlier AddRequest, NewReader, or the archive
\* given to NewHandler.
C29_NoSharedPageRef ==
  [][\A id \in Ids, r \in HttpRequests :
       (AddRequest(id, r) /\ \E i \in DOMAIN List : heap[List[i]].pageRef = id) =>
         /\ last'.err # "none"
         /\ UNCHANGED <<heap, logs, harLog, index>>]_vars

\* C30: in every reachable state each key of the index maps to an entry
\* that is in the store's list and whose pageRef is the key.
C30_IndexConsistent ==
  \A k \in DOMAIN index :
    /\ \E i \in DOMAIN List : List[i] = index[k]
    /\ heap[index[k]].pageRef = k

\* A request is executing or its body is being read: Execute is inside its
\* loop, or a worker of SyncExecute is inside h.run / io.ReadAll.
InFlight == ePc = "run" \/ InTransport # {}

\* C31: the store lock is never held while a request is executing or a
\* response body is being read, so that no store operation of another
\* goroutine (AddRequest, AddResponse, Export, EntryTotal, Reset) waits for
\* an in-flight request.
C31_LockFreeInFlight == InFlight => MuLock

\* A request of a SyncExecute is in the transport and a store operation
\* that takes the lock has completed since the call began.
C31_Witness ==
  /\ lPc = "done"
  /\ lMode = "SyncExecute"
  /\ InTransport # {}
  /\ last.op \in {"AddRequest", "Reset", "Export", "EntryTotal"}
  /\ last.err = "none"

\* C35: a filter predicate may call a locking store operation on the
\* Handler: the selection never ends up waiting for the lock.
C35_SelectionCompletes == lPc # "waiting"

\* C36: after a filter predicate panicked during the selection, the store
\* lock is not held.
C36_PanicReleasesLock == lPc = "panicked" => MuLock

\* C32: FillInResponse on a Receipt, also one obtained before a Reset and
\* later AddRequest calls, never faults on the recorded index and writes to
\* no entry other than the Receipt's own Entry.
C32_FillAfterReset ==
  [][\A k \in 1..MaxEntries, o \in {"none", "true", "false"} :
       (/\ k \in DOMAIN eReceipts
        /\ eReceipts[k].err = "none"
        /\ FillInResponse(eReceipts[k], o)) =>
         /\ last'.err # "panic"
         /\ \A a \in EntryAddrs \ {eReceipts[k].entry} : heap'[a] = heap[a]]_vars

\* C33: in every interleaving of a SyncExecute a worker releases a slot of
\* the semaphore only if one was acquired for it, also when the Acquire
\* failed on a cancelled context, and the count of slots taken never falls
\* below zero.
C33_ReleaseOnlyAcquired ==
  [][\A i \in 1..MaxEntries :
       WorkerRelease(i) => (held[i] /\ semaCur' >= 0)]_vars

\* C34: under a transport that always returns and fair scheduling, the
\* channel SyncExecute returned is eventually closed, whether or not the
\* consumer reads from it.
C34_EventuallyClosed == (sPc = "loop") ~> chanClosed

\* C37: AddResponse(id, r) for an id the index holds changes nothing but
\* the Response and the time of entries whose pageRef is id: the list (its
\* length and order), the index, every entry with another or an empty
\* pageRef, and the other fields of the entries it writes stay as they were.
C37_AddResponseFrame ==
  [][\A id \in Ids, resp \in HttpResponses :
       (AddResponse(id, resp) /\ id \in DOMAIN index) =>
         /\ UNCHANGED <<logs, harLog, index>>
         /\ \A a \in EntryAddrs :
              /\ heap[a].pageRef # id => heap'[a] = heap[a]
              /\ heap'[a].pageRef = heap[a].pageRef
              /\ heap'[a].req = heap[a].req
              /\ heap'[a].started = heap[a].started]_vars

\* C37 witness: AddResponse("a") succeeded on a store that knows "a"; an
\* entry recorded as "a" holds the new response, and the list still holds
\* an entry with another pageRef and the response it had.
C37_Witness ==
  /\ last = Call("AddResponse", "a", "none")
  /\ "a" \in DOMAIN index
  /\ heap[index["a"]].response = "r1"
  /\ \E i \in DOMAIN List : /\ heap[List[i]].pageRef # "a"
                            /\ heap[List[i]].response # "r1"

\* C38: an AddRequest or AddResponse call that returns an error (nil
\* message, content that cannot be converted, body read failure, duplicate
\* id) leaves the entry list, its entries and the index as they were.
C38_ErrorLeavesStore ==
  [][/\ \A id \in Ids, r \in HttpRequests :
          (AddRequest(id, r) /\ last'.err # "none") =>
            UNCHANGED <<heap, logs, harLog, index>>
     /\ \A id \in Ids, resp \in HttpResponses :
          (AddResponse(id, resp) /\ last'.err # "none") =>
            UNCHANGED <<heap, logs, harLog, index>>]_vars

\* C38 witness: AddRequest("a") was rejected as a duplicate on a store
\* that holds "a" once, next to another recorded entry.
C38_Witness ==
  /\ last = Call("AddRequest", "a", "duplicate")
  /\ DOMAIN index = {"a", "b"}
  /\ Cardinality(ListedAs("a")) = 1

\* C39: when no entry is selected (no filter accepts an entry, or no filter
\* is given) no request is executed: Execute has returned no Receipt and no
\* error, and the channel of SyncExecute is closed, no worker was started
\* and no Receipt is ever sent on it.
C39_EmptySelection ==
  /\ (ePc # "idle" /\ AnyFilter(eFilters, eSelList) = {}) =>
       /\ ePc = "done"
       /\ eReceipts = <<>>
       /\ last = Call("Execute", "", "none")
  /\ (sPc # "idle" /\ AnyFilter(sFilters, sSelList) = {}) =>
       /\ sPc = "closed" /\ chanClosed /\ ~crashed
       /\ DOMAIN worker = {}
       /\ Sent = <<>>
       /\ last = Call("SyncExecute", "", "none")

\* C39 witness: Execute was called without a filter on a store that holds
\* entries, and has returned.
C39_Witness ==
  /\ ePc = "done"
  /\ eFilters = <<>>
  /\ Len(eSelList) > 0
  /\ eReceipts = <<>>
====
